---- MODULE Spec2Model ----
(***************************************************************************)
(* A model of the cybsi-sdk client library: the client entry point         *)
(* (cybsi/api/client.py), the external databases API                       *)
(* (cybsi/api/enrichment/external_dbs.py) and the entities API             *)
(* (cybsi/api/observable/entities_api.py).                                 *)
(*                                                                         *)
(* Python values are records tagged by their type in field t, so that      *)
(* None, the Null sentinel, strings and integers are distinct values that  *)
(* can be compared with each other.                                        *)
(***************************************************************************)
EXTENDS Integers, Sequences, FiniteSets, TLC

VARIABLES
    client,      \* CybsiClient: "unconstructed", "ready" or "raised"
    config,      \* the Config handed to CybsiClient.__init__
    connectors,  \* every HTTPConnector created so far, in creation order
    raised,      \* the exception the last call raised, or "" for none
    requests,    \* while recording: every HTTP request issued, in order
    calls,       \* while recording: every API method call made, in order
    recording,   \* whether this behaviour keeps the logs requests and calls
    handle,      \* the API handle the last property read returned
    call,        \* the last call on the client or an API: its name and arguments
    sent,        \* the HTTP request the last call issued, in full
    dbs,         \* server: the registered external databases, by uuid
    held,        \* per caller: the database and tag of its last view
    stale,       \* per caller: its last edit raised ResourceModifiedError
    wins,        \* per <<database, tag>>: edits with that tag that succeeded
    registered,  \* per data source: register calls that returned a reference
    listing,     \* server: the shape of the paginated lists it serves
    walks,       \* per walk: the Page a call returned and what its consumer did
    ver          \* the version text the server last reported and its Version

vars ==
    <<client, config, connectors, raised, requests, calls, recording, handle,
      call, sent, dbs, held, stale, wins, registered, listing, walks, ver>>

pageVars == <<listing, walks, ver>>

clientVars == <<client, config, connectors, handle, recording>>

logVars == <<requests, calls>>

edbVars == <<call, sent, dbs, held, stale, wins, registered>>

----------------------------------------------------------------------------
\* Bounds of the model.

\* The most HTTP requests a behaviour records.
MaxRequests == 3

\* The most versions (tags) an external database goes through.
MaxTag == 3

\* The number of data sources known to the server.
NumDataSources == 2

\* The most pages a paginated list has.
MaxPages == 3

\* The number of items on a page that is not empty.
ItemsPerPage == 2

\* The most characters in the prerelease and in the build part of a version.
MaxPartLen == 2

\* The most entity types in a list whose round trip is followed.
MaxTypes == 2

----------------------------------------------------------------------------
\* Python values.

None == [t |-> "None"]

Str(s) == [t |-> "str", v |-> s]

PyInt(n) == [t |-> "int", v |-> n]

PyBool(b) == [t |-> "bool", v |-> b]

\* Python's truth value of an object: None, "" and 0 are falsy.
Truthy(x) ==
    CASE x.t = "None" -> FALSE
      [] x.t = "str" -> x.v # ""
      [] x.t = "int" -> x.v # 0
      [] x.t = "bool" -> x.v
      [] x.t = "list" -> x.v # <<>>
      [] OTHER -> TRUE

----------------------------------------------------------------------------
\* cybsi/api/api.py: the Null sentinel of Nullable arguments.

Null == [t |-> "Null"]

\* _unwrap_nullable(nullable): the Null sentinel becomes None (a JSON null),
\* anything else is passed through.
_unwrap_nullable(x) == IF x = Null THEN None ELSE x

----------------------------------------------------------------------------
\* Dictionaries (JSON objects) are functions from their keys.

EmptyDict == [k \in {} |-> None]

Put(d, k, v) == [x \in (DOMAIN d) \cup {k} |-> IF x = k THEN v ELSE d[x]]

\* A Python list as a value.
List(s) == [t |-> "list", v |-> s]

\* str(uuid.UUID): the canonical text of a uuid.
UuidStr(u) == Str(<<"uuid", u>>)

----------------------------------------------------------------------------
\* cybsi/api/observable/enums.py

\* The members of EntityTypes, in the order of their definition.
EntityTypeMembers ==
    <<"IPAddress", "DomainName", "File", "EmailAddress", "PhoneNumber", "Identity", "URL">>

\* EntityTypes: member name |-> member value.
EntityTypesAliased ==
    [n \in { "IPAddress", "DomainName", "File", "EmailAddress",
             "PhoneNumber", "Identity", "URL" } |-> IF n = "URL" THEN "File" ELSE n]

EntityTypes ==
    [n \in { "IPAddress", "DomainName", "File", "EmailAddress",
             "PhoneNumber", "Identity", "URL" } |-> n]

\* EntityTypes(value): the first member defined with that value, a later
\* member of the same value being an alias of it; ValueError when none has it.
EntityTypesOf(value) ==
    LET hits == { i \in 1..Len(EntityTypeMembers) : EntityTypes[EntityTypeMembers[i]] = value.v }
    IN  IF hits = {} THEN "ValueError"
        ELSE EntityTypeMembers[CHOOSE i \in hits : \A j \in hits : i <= j]

\* [t.value for t in entity_types]
EntityTypeValues(entity_types) ==
    [i \in 1..Len(entity_types) |-> Str(EntityTypes[entity_types[i]])]

----------------------------------------------------------------------------
\* cybsi/api/enrichment/external_dbs.py

Callers == { "a", "b" }

\* The data source uuids a caller passes; the last one is unknown to the server.
DataSourceArgs == 1..(NumDataSources + 1)

KnownDataSources == 1..NumDataSources

\* The most external databases the server holds.
MaxDBs == NumDataSources + 1

ExternalDBsPath == "/enrichment/external-dbs"

NoCall == [op |-> "none"]

NoRequest == [method |-> "none"]

NoView == [db |-> 0, tag |-> 0, entity_types |-> <<>>]

\* ExternalDBView.entity_types: [EntityTypes(typ) for typ in entityTypes]
ExternalDBViewEntityTypes(entityTypes) ==
    [i \in 1..Len(entityTypes.v) |-> EntityTypesOf(entityTypes.v[i])]

\* The form dict ExternalDBsAPI.edit builds from its arguments.
EditFormDropFalsy(entity_types, web_page_url, task_execution_timeout, task_execution_attempts_count) ==
    LET f0 == EmptyDict
        f1 == IF entity_types # None
                THEN Put(f0, "entityTypes", List(EntityTypeValues(entity_types.v)))
                ELSE f0
        f2 == IF Truthy(_unwrap_nullable(web_page_url))
                THEN Put(f1, "webPageURL", _unwrap_nullable(web_page_url))
                ELSE f1
        f3 == IF Truthy(_unwrap_nullable(task_execution_timeout))
                THEN Put(f2, "taskExecutionTimeout", _unwrap_nullable(task_execution_timeout))
                ELSE f2
        f4 == IF Truthy(_unwrap_nullable(task_execution_attempts_count))
                THEN Put(f3, "taskExecutionAttemptsCount",
                         _unwrap_nullable(task_execution_attempts_count))
                ELSE f3
    IN  f4

EditForm(entity_types, web_page_url, task_execution_timeout, task_execution_attempts_count) ==
    LET f0 == EmptyDict
        f1 == IF entity_types # None
                THEN Put(f0, "entityTypes", List(EntityTypeValues(entity_types.v)))
                ELSE f0
        f2 == IF web_page_url # None
                THEN Put(f1, "webPageURL", _unwrap_nullable(web_page_url))
                ELSE f1
        f3 == IF task_execution_timeout # None
                THEN Put(f2, "taskExecutionTimeout", _unwrap_nullable(task_execution_timeout))
                ELSE f2
        f4 == IF task_execution_attempts_count # None
                THEN Put(f3, "taskExecutionAttemptsCount",
                         _unwrap_nullable(task_execution_attempts_count))
                ELSE f3
    IN  f4

\* The PATCH request of ExternalDBsAPI.edit: do_patch(path, tag, json).
EditRequestCurrentTag(db_uuid, tag, form) ==
    [method |-> "PATCH", path |-> <<ExternalDBsPath, db_uuid>>,
     tag |-> IF db_uuid \in 1..Len(dbs) THEN dbs[db_uuid].tag ELSE tag,
     json |-> form]

EditRequest(db_uuid, tag, form) ==
    [method |-> "PATCH", path |-> <<ExternalDBsPath, db_uuid>>,
     tag |-> tag, json |-> form]

\* ExternalDBForm.__init__: the body of a registration.
ExternalDBFormWrongSource(data_source_uuid, entity_types, web_page_url, task_execution_timeout, task_execution_attempts_count) ==
    LET f0 == Put(Put(EmptyDict, "dataSourceUUID", UuidStr(Len(entity_types))),
                  "entityTypes", List(EntityTypeValues(entity_types)))
        f1 == IF web_page_url # None THEN Put(f0, "webPageURL", web_page_url) ELSE f0
        f2 == IF task_execution_timeout # None
                THEN Put(f1, "taskExecutionTimeout", task_execution_timeout)
                ELSE f1
        f3 == IF task_execution_attempts_count # None
                THEN Put(f2, "taskExecutionAttemptsCount", task_execution_attempts_count)
                ELSE f2
    IN  f3

ExternalDBForm(data_source_uuid, entity_types, web_page_url, task_execution_timeout, task_execution_attempts_count) ==
    LET f0 == Put(Put(EmptyDict, "dataSourceUUID", UuidStr(data_source_uuid)),
                  "entityTypes", List(EntityTypeValues(entity_types)))
        f1 == IF web_page_url # None THEN Put(f0, "webPageURL", web_page_url) ELSE f0
        f2 == IF task_execution_timeout # None
                THEN Put(f1, "taskExecutionTimeout", task_execution_timeout)
                ELSE f1
        f3 == IF task_execution_attempts_count # None
                THEN Put(f2, "taskExecutionAttemptsCount", task_execution_attempts_count)
                ELSE f2
    IN  f3

\* The POST request of ExternalDBsAPI.register.
RegisterRequest(form) ==
    [method |-> "POST", path |-> <<ExternalDBsPath>>, tag |-> None, json |-> form]

\* The GET request of ExternalDBsAPI.view.
ViewRequest(db_uuid) ==
    [method |-> "GET", path |-> <<ExternalDBsPath, db_uuid>>, tag |-> None,
     json |-> EmptyDict]

\* The server holds no external database and no call was made.
EdbIdle ==
    /\ call = NoCall
    /\ sent = NoRequest
    /\ dbs = <<>>
    /\ held = [c \in Callers |-> NoView]
    /\ stale = [c \in Callers |-> FALSE]
    /\ wins = [k \in (1..MaxDBs) \X (0..MaxTag) |-> 0]
    /\ registered = [d \in DataSourceArgs |-> 0]

----------------------------------------------------------------------------
\* cybsi/api/pagination.py and the paginated lists of the server.

Walks == { 1, 2 }

\* The two paginated calls of EntitiesAPI and the paths of their GET.
EntitiesPath == "/observable/entities"

PagedApis == { "aggregate", "forecast_links" }

\* A cursor is an opaque string; the server reads from it the page it names.
CursorOf(k) == [t |-> "str", v |-> "cursor", page |-> k]

\* The items of page k of a list: page listing.empty has none.
ServerPage(api, k) ==
    IF k = listing.empty THEN <<>> ELSE [j \in 1..ItemsPerPage |-> <<api, k, j>>]

\* The page a GET names: the first one when it carries no cursor.
RequestedPage(params) ==
    IF "cursor" \in DOMAIN params THEN params["cursor"].page ELSE 1

\* The server's response to a GET of a list: the items of the page and,
\* unless it is the last page, the cursor of the next one.
ServerList(api, params) ==
    LET k == RequestedPage(params) IN
    [items |-> ServerPage(api, k),
     cursor |-> IF k < listing.n THEN CursorOf(k + 1) ELSE None]

NoWalk ==
    [status |-> "none", api |-> "none", start |-> 0, resp |-> None,
     consumed |-> FALSE, yielded |-> <<>>, gets |-> <<>>, npages |-> 0]

NoVersion == [text |-> <<>>, parts |-> None, parsed |-> None]

\* No paginated call was made and no version was read.
PagesIdle ==
    /\ listing = [n |-> 1, empty |-> 0]
    /\ walks = [w \in Walks |-> NoWalk]
    /\ ver = NoVersion

----------------------------------------------------------------------------
\* cybsi/api/client.py

\* APIKeyAuth(api_url, api_key), the authenticator built from a key.
APIKeyAuth(api_url, api_key) == [t |-> "APIKeyAuth", api_url |-> api_url, api_key |-> api_key]

\* The values Config.auth takes: None, an APIKeyAuth, or any callable.
AuthValues ==
    { None,
      APIKeyAuth("u1", Str("k9")),
      [t |-> "Callable", v |-> "f"] }

\* The values Config.api_key takes; None is what environ.get returns for an
\* unset variable.
ApiKeyValues == { None, Str(""), Str("k1"), Str("k2") }

ApiUrls == { "u1", "u2" }

\* dataclass Config
Config(api_url, auth, ssl_verify, api_key) ==
    [api_url |-> api_url, auth |-> auth, ssl_verify |-> ssl_verify, api_key |-> api_key]

Configs ==
    { Config(u, a, s, k) : u \in ApiUrls, a \in AuthValues, s \in BOOLEAN, k \in ApiKeyValues }

NoConfig == [api_url |-> "", auth |-> None, ssl_verify |-> FALSE, api_key |-> None]

\* The auth CybsiClient.__init__ hands to its connector.
ClientAuthKeyIgnored(cfg) ==
    IF cfg.auth.t # "None" THEN cfg.auth ELSE APIKeyAuth("", cfg.api_key)

ClientAuth(cfg) ==
    IF Truthy(cfg.api_key) THEN APIKeyAuth("", cfg.api_key) ELSE cfg.auth

\* The guard of CybsiClient.__init__ that raises CybsiError.
NoAuthConfiguredNoneKeyOnly(cfg) == cfg.auth.t = "None" /\ cfg.api_key.t = "None"

NoAuthConfigured(cfg) == cfg.auth.t = "None" /\ ~Truthy(cfg.api_key)

\* A connector as its constructor leaves it: open.
HTTPConnector(base_url, auth, ssl_verify) ==
    [base_url |-> base_url, auth |-> auth, ssl_verify |-> ssl_verify, closed |-> FALSE]

\* A logged request: its method and its path, a path being the tuple of the
\* text of its route and the values formatted into it.
Request(method, path) == [method |-> method, path |-> path]

\* connector.do_get(path, params), in full.
GetRequest(path, params) == [method |-> "GET", path |-> path, params |-> params]

\* A logged call of an API method: its name and the arguments its path takes.
ApiCall(op, args) == [op |-> op, args |-> args]

\* The log entries of the requests rs.
RequestsOf(rs) == [i \in 1..Len(rs) |-> Request(rs[i].method, rs[i].path)]

NoHandle == [api |-> "none", connector |-> 0]

\* A behaviour that records stops when one of its logs is full.
CanRecord == recording => Len(calls) < MaxRequests /\ Len(requests) < MaxRequests

\* The connector issued the requests reqs on behalf of the calls ops.
Recorded(ops, reqs) ==
    IF recording
      THEN calls' = calls \o ops /\ requests' = requests \o RequestsOf(reqs)
      ELSE UNCHANGED <<requests, calls>>

\* CybsiClient.__init__(config)
NewClient(cfg) ==
    /\ client = "unconstructed"
    /\ config' = cfg
    /\ IF NoAuthConfigured(cfg)
         THEN /\ client' = "raised"
              /\ raised' = "CybsiError"
              /\ UNCHANGED connectors
         ELSE /\ client' = "ready"
              /\ raised' = ""
              /\ connectors' =
                     Append(connectors,
                            HTTPConnector(cfg.api_url, ClientAuth(cfg), cfg.ssl_verify))
    /\ UNCHANGED <<handle, recording, logVars, edbVars, pageVars>>

\* CybsiClient.version()
\* The client is used while its connector is open.
ClientVersion ==
    /\ client = "ready"
    /\ ~connectors[1].closed
    /\ CanRecord
    /\ call' = [op |-> "version"]
    /\ sent' = GetRequest(<<"/version">>, EmptyDict)
    /\ Recorded(<<ApiCall("CybsiClient.version", <<>>)>>, <<sent'>>)
    /\ raised' = ""
    /\ UNCHANGED <<dbs, held, stale, wins, registered, clientVars, pageVars>>

\* HTTPConnector.close(): the connector releases its connections.
ConnectorClose(connector) == [connector EXCEPT !.closed = TRUE]

\* CybsiClient.close()
ClientCloseFresh ==
    /\ client = "ready"
    /\ Len(connectors) < 2
    /\ connectors' = Append(connectors, ConnectorClose(connectors[1]))
    /\ call' = [op |-> "close"]
    /\ sent' = NoRequest
    /\ raised' = ""
    /\ UNCHANGED <<client, config, handle, recording, logVars,
                   dbs, held, stale, wins, registered, pageVars>>

ClientClose ==
    /\ client = "ready"
    /\ connectors' = [connectors EXCEPT ![1] = ConnectorClose(@)]
    /\ call' = [op |-> "close"]
    /\ sent' = NoRequest
    /\ raised' = ""
    /\ UNCHANGED <<client, config, handle, recording, logVars,
                   dbs, held, stale, wins, registered, pageVars>>

\* The properties of CybsiClient and the class of the handle each returns.
Properties ==
    [artifacts |-> "ArtifactsAPI",
     data_sources |-> "DataSourcesAPI",
     data_source_types |-> "DataSourceTypesAPI",
     enrichment |-> "EnrichmentAPI",
     observable |-> "ObservableAPI",
     observations |-> "ObservationsAPI",
     replists |-> "ReplistsAPI",
     reports |-> "ReportsAPI",
     search |-> "SearchAPI",
     users |-> "UsersAPI",
     api_keys |-> "APIKeysAPI"]

\* BaseAPI(connector): a handle holds the connector it was built with, here
\* by its place in connectors.
BaseAPI(api, connector) == [api |-> api, connector |-> connector]

\* Reading the property p of the client.
ReadPropertyOwnConnector(p) ==
    /\ client = "ready"
    /\ Len(connectors) < 2
    /\ connectors' = Append(connectors, connectors[1])
    /\ handle' = BaseAPI(Properties[p], Len(connectors'))
    /\ call' = [op |-> "property", name |-> p]
    /\ sent' = NoRequest
    /\ raised' = ""
    /\ UNCHANGED <<client, config, recording, logVars,
                   dbs, held, stale, wins, registered, pageVars>>

ReadProperty(p) ==
    /\ client = "ready"
    /\ handle' = BaseAPI(Properties[p], 1)
    /\ call' = [op |-> "property", name |-> p]
    /\ sent' = NoRequest
    /\ raised' = ""
    /\ UNCHANGED <<client, config, connectors, recording, logVars,
                   dbs, held, stale, wins, registered, pageVars>>

Init ==
    /\ client = "unconstructed"
    /\ config = NoConfig
    /\ connectors = <<>>
    /\ raised = ""
    /\ requests = <<>>
    /\ calls = <<>>
    /\ recording = TRUE
    /\ handle = NoHandle
    /\ EdbIdle
    /\ PagesIdle

Next ==
    \/ \E cfg \in Configs : NewClient(cfg)
    \/ ClientVersion
    \/ ClientClose
    \/ \E p \in DOMAIN Properties : ReadProperty(p)

Spec == Init /\ [][Next]_vars

----------------------------------------------------------------------------
\* The server behind /enrichment/external-dbs, as the Raises sections of
\* ExternalDBsAPI document it.

\* A stored external database; its uuid is its index in dbs.
NewDB(json) ==
    [dataSourceUUID |-> json["dataSourceUUID"],
     entityTypes |-> json["entityTypes"],
     webPageURL |-> IF "webPageURL" \in DOMAIN json THEN json["webPageURL"] ELSE None,
     taskExecutionTimeout |->
         IF "taskExecutionTimeout" \in DOMAIN json
           THEN json["taskExecutionTimeout"] ELSE None,
     taskExecutionAttemptsCount |->
         IF "taskExecutionAttemptsCount" \in DOMAIN json
           THEN json["taskExecutionAttemptsCount"] ELSE None,
     tag |-> 0]

\* InvalidRequestError: an empty entity types list, a timeout outside
\* [1;864000] or an attempts count outside [1;1000].
InvalidBody(json) ==
    \/ "entityTypes" \in DOMAIN json /\ json["entityTypes"].v = <<>>
    \/ /\ "taskExecutionTimeout" \in DOMAIN json
       /\ json["taskExecutionTimeout"] # None
       /\ ~(json["taskExecutionTimeout"].v \in 1..864000)
    \/ /\ "taskExecutionAttemptsCount" \in DOMAIN json
       /\ json["taskExecutionAttemptsCount"] # None
       /\ ~(json["taskExecutionAttemptsCount"].v \in 1..1000)

\* The stored database after a PATCH: a key of the body replaces the stored
\* field (a JSON null clears it), a key left out leaves it alone.
Patched(db, json) ==
    [f \in DOMAIN db |->
        IF f = "tag" THEN db.tag + 1
        ELSE IF f \in DOMAIN json THEN json[f]
        ELSE db[f]]

\* The errors the server may answer a PATCH with; none when it applies it.
PatchErrors(req) ==
    LET db_uuid == req.path[2] IN
    IF db_uuid \notin 1..Len(dbs) THEN { "NotFoundError" }
    ELSE (IF req.tag # dbs[db_uuid].tag THEN { "ResourceModifiedError" } ELSE {})
         \cup (IF InvalidBody(req.json) THEN { "InvalidRequestError" } ELSE {})

\* The errors the server may answer a POST with; none when it registers.
PostErrors(req) ==
    (IF InvalidBody(req.json) THEN { "InvalidRequestError" } ELSE {})
    \cup (IF \A d \in KnownDataSources : req.json["dataSourceUUID"] # UuidStr(d)
            THEN { "SemanticError" } ELSE {})
    \cup (IF \E i \in 1..Len(dbs) : dbs[i].dataSourceUUID = req.json["dataSourceUUID"]
            THEN { "ConflictError" } ELSE {})

----------------------------------------------------------------------------
\* The calls of ExternalDBsAPI.

\* ExternalDBsAPI.view(db_uuid) by caller c, who keeps the tag of the view.
View(c, db_uuid) ==
    /\ CanRecord
    /\ call' = [op |-> "view", caller |-> c, db_uuid |-> db_uuid]
    /\ sent' = ViewRequest(db_uuid)
    /\ Recorded(<<ApiCall("ExternalDBsAPI.view", <<db_uuid>>)>>, <<ViewRequest(db_uuid)>>)
    /\ IF db_uuid \in 1..Len(dbs)
         THEN /\ raised' = ""
              /\ held' = [held EXCEPT ![c] =
                              [db |-> db_uuid, tag |-> dbs[db_uuid].tag,
                               entity_types |->
                                   ExternalDBViewEntityTypes(dbs[db_uuid].entityTypes)]]
              /\ stale' = [stale EXCEPT ![c] = FALSE]
         ELSE /\ raised' = "NotFoundError"
              /\ UNCHANGED <<held, stale>>
    /\ UNCHANGED <<dbs, wins, registered, clientVars, pageVars>>

\* ExternalDBsAPI.register(ExternalDBForm(...)) by caller c.
Register(c, data_source_uuid, entity_types, web_page_url, task_execution_timeout, task_execution_attempts_count) ==
    LET form == ExternalDBForm(data_source_uuid, entity_types, web_page_url,
                               task_execution_timeout, task_execution_attempts_count)
        req == RegisterRequest(form)
    IN  /\ Len(dbs) < MaxDBs
        /\ CanRecord
        /\ Recorded(<<ApiCall("ExternalDBsAPI.register", <<>>)>>, <<req>>)
        /\ call' = [op |-> "register", caller |-> c,
                    data_source_uuid |-> data_source_uuid,
                    entity_types |-> entity_types,
                    web_page_url |-> web_page_url,
                    task_execution_timeout |-> task_execution_timeout,
                    task_execution_attempts_count |-> task_execution_attempts_count]
        /\ sent' = req
        /\ IF PostErrors(req) = {}
             THEN /\ raised' = ""
                  /\ dbs' = Append(dbs, NewDB(req.json))
                  /\ registered' =
                         [registered EXCEPT ![data_source_uuid] = @ + 1]
             ELSE /\ raised' \in PostErrors(req)
                  /\ UNCHANGED <<dbs, registered>>
        /\ UNCHANGED <<held, stale, wins, clientVars, pageVars>>

\* ExternalDBsAPI.edit(db_uuid, tag, ...) by caller c.
Edit(c, db_uuid, tag, entity_types, web_page_url, task_execution_timeout, task_execution_attempts_count) ==
    LET form == EditForm(entity_types, web_page_url, task_execution_timeout,
                         task_execution_attempts_count)
        req == EditRequest(db_uuid, tag, form)
    IN  /\ db_uuid \in 1..Len(dbs) => dbs[db_uuid].tag < MaxTag
        /\ CanRecord
        /\ Recorded(<<ApiCall("ExternalDBsAPI.edit", <<db_uuid>>)>>, <<req>>)
        /\ call' = [op |-> "edit", caller |-> c, db_uuid |-> db_uuid, tag |-> tag,
                    entity_types |-> entity_types,
                    web_page_url |-> web_page_url,
                    task_execution_timeout |-> task_execution_timeout,
                    task_execution_attempts_count |-> task_execution_attempts_count]
        /\ sent' = req
        /\ IF PatchErrors(req) = {}
             THEN /\ raised' = ""
                  /\ dbs' = [dbs EXCEPT ![db_uuid] = Patched(@, req.json)]
                  /\ wins' = [wins EXCEPT ![<<db_uuid, tag>>] = @ + 1]
                  /\ UNCHANGED stale
             ELSE /\ raised' \in PatchErrors(req)
                  /\ stale' = [stale EXCEPT
                                  ![c] = @ \/ raised' = "ResourceModifiedError"]
                  /\ UNCHANGED <<dbs, wins>>
        /\ UNCHANGED <<held, registered, clientVars, pageVars>>

----------------------------------------------------------------------------
\* A client that CybsiClient.__init__ has built.
ReadyConfig == Config("u1", None, TRUE, Str("k1"))

ClientBuilt ==
    /\ client = "ready"
    /\ config = ReadyConfig
    /\ connectors = <<HTTPConnector("u1", ClientAuth(ReadyConfig), TRUE)>>
    /\ raised = ""
    /\ requests = <<>>
    /\ calls = <<>>
    /\ handle = NoHandle

\* A built client whose requests are not recorded.
ClientReady == ClientBuilt /\ recording = FALSE

\* A built client whose requests are recorded.
ClientRecorded == ClientBuilt /\ recording = TRUE

\* The server after one external database was registered for data source 1.
OneRegistered ==
    /\ call = NoCall
    /\ sent = NoRequest
    /\ dbs = <<NewDB(ExternalDBForm(1, <<"DomainName", "IPAddress">>, None, None, None))>>
    /\ held = [c \in Callers |-> NoView]
    /\ stale = [c \in Callers |-> FALSE]
    /\ wins = [k \in (1..MaxDBs) \X (0..MaxTag) |-> 0]
    /\ registered = [d \in DataSourceArgs |-> IF d = 1 THEN 1 ELSE 0]

----------------------------------------------------------------------------
\* Callers registering external databases.

RegInit == ClientReady /\ EdbIdle /\ PagesIdle

EntityTypesLists == { <<"IPAddress">>, <<"DomainName", "IPAddress">> }

RegRegister ==
    \E c \in Callers, d \in DataSourceArgs, et \in EntityTypesLists,
       url \in { None, Str("w") } :
        Register(c, d, et, url, None, None)

RegNext == RegRegister

RegSpec == RegInit /\ [][RegNext]_vars

----------------------------------------------------------------------------
\* Two callers viewing and editing the same external database.

RaceInit == ClientReady /\ OneRegistered /\ PagesIdle

RaceView == \E c \in Callers : View(c, 1)

\* A caller edits the database it viewed, with the tag of that view.
RaceEdit ==
    \E c \in Callers, url \in { Null, Str("v") } :
        /\ held[c].db # 0
        /\ Edit(c, held[c].db, held[c].tag, None, url, None, None)

RaceNext == RaceView \/ RaceEdit

RaceSpec == RaceInit /\ [][RaceNext]_vars

----------------------------------------------------------------------------
\* One caller editing an external database with every combination of
\* arguments.

EditInit == ClientReady /\ OneRegistered /\ PagesIdle

EntityTypesArgs == { None, List(<<>>), List(<<"DomainName", "IPAddress">>) }

WebPageUrlArgs == { None, Null, Str(""), Str("w") }

TimeoutArgs == { None, Null, PyInt(5) }

AttemptsArgs == { None, Null, PyInt(3) }

EditAny ==
    \E et \in EntityTypesArgs, url \in WebPageUrlArgs,
       to \in TimeoutArgs, ac \in AttemptsArgs :
        /\ held["a"].db # 0
        /\ Edit("a", held["a"].db, held["a"].tag, et, url, to, ac)

EditView == View("a", 1)

EditNext == EditAny \/ EditView

EditSpec == EditInit /\ [][EditNext]_vars

----------------------------------------------------------------------------
\* One caller sending entity types lists and reading them back.

\* The lists of at most MaxTypes members of EntityTypes.
TypeLists == UNION { [1..n -> DOMAIN EntityTypes] : n \in 0..MaxTypes }

TypesInit == ClientReady /\ EdbIdle /\ PagesIdle

\* The caller registers an external database while there is none.
TypesRegister ==
    \E et \in TypeLists :
        /\ dbs = <<>>
        /\ Register("a", 1, et, None, None, None)

TypesView == View("a", 1)

\* The caller edits the entity types of the database it has just viewed:
\* to none, or to the types of the view in reverse order.
TypesEdit ==
    LET viewed == held["a"].entity_types
        reversed == [i \in 1..Len(viewed) |-> viewed[Len(viewed) + 1 - i]]
    IN  \E et \in { <<>>, reversed } :
            /\ held["a"].db # 0
            /\ held["a"].tag = dbs[held["a"].db].tag
            /\ Edit("a", held["a"].db, held["a"].tag, List(et), None, None, None)

TypesNext == TypesRegister \/ TypesView \/ TypesEdit

TypesSpec == TypesInit /\ [][TypesNext]_vars

----------------------------------------------------------------------------
\* cybsi/api/observable/entities_api.py: the paginated calls.

\* str(limit) for the limits the callers pass.
IntStr(x) == Str(CASE x.v = 0 -> "0" [] x.v = 5 -> "5" [] OTHER -> "int")

\* The query parameters EntitiesAPI.aggregate builds.
AggregateParamsNoCursor(entity_uuids, sections, forecast_at, cursor, limit) ==
    LET p0 == Put(EmptyDict, "uuid", List(entity_uuids))
        p1 == IF sections # None THEN Put(p0, "section", sections) ELSE p0
        p2 == IF forecast_at # None THEN Put(p1, "forecastAt", forecast_at) ELSE p1
        p4 == IF Truthy(limit) THEN Put(p2, "limit", limit) ELSE p2
    IN  p4

AggregateParams(entity_uuids, sections, forecast_at, cursor, limit) ==
    LET p0 == Put(EmptyDict, "uuid", List(entity_uuids))
        p1 == IF sections # None THEN Put(p0, "section", sections) ELSE p0
        p2 == IF forecast_at # None THEN Put(p1, "forecastAt", forecast_at) ELSE p1
        p3 == IF Truthy(cursor) THEN Put(p2, "cursor", cursor) ELSE p2
        p4 == IF Truthy(limit) THEN Put(p3, "limit", limit) ELSE p3
    IN  p4

\* The query parameters EntitiesAPI.forecast_links builds.
ForecastLinksParams(related_entity_types, direction, kind, confidence_threshold, forecast_at, cursor, limit) ==
    LET p0 == EmptyDict
        p1 == IF related_entity_types # None
                THEN Put(p0, "relatedEntityType", List(EntityTypeValues(related_entity_types.v)))
                ELSE p0
        p2 == IF direction # None THEN Put(p1, "direction", direction) ELSE p1
        p3 == IF kind # None THEN Put(p2, "kind", kind) ELSE p2
        p4 == IF confidence_threshold # None
                THEN Put(p3, "confidenceThreshold", confidence_threshold) ELSE p3
        p5 == IF forecast_at # None THEN Put(p4, "forecastAt", forecast_at) ELSE p4
        p6 == IF Truthy(cursor) THEN Put(p5, "cursor", cursor) ELSE p5
        p7 == IF Truthy(limit) THEN Put(p6, "limit", IntStr(limit)) ELSE p6
    IN  p7

\* The path a paginated call GETs.
PagedPath(api, entity_uuid) ==
    IF api = "aggregate" THEN <<EntitiesPath>> ELSE <<EntitiesPath, entity_uuid, "links">>

\* The GETs a paginated call issues before it returns its Page.
CallGetsTwice(path, params) == <<GetRequest(path, params), GetRequest(path, params)>>

CallGets(path, params) == <<GetRequest(path, params)>>

\* The page a caller asks to start from: the one its cursor names, the first
\* one when it passes none or an empty one.
AskedPage(cursor) == IF cursor \in { None, Str("") } THEN 1 ELSE cursor.page

\* Page(api_call, resp, view) in the hands of a consumer that has not read
\* it yet; start is the page the caller asked to start from.
FreshWalk(api, start, gets, resp) ==
    [status |-> "open", api |-> api, start |-> start, resp |-> resp,
     consumed |-> FALSE, yielded |-> <<>>, gets |-> gets, npages |-> 1]

\* The call returns its new Page to its caller, and to nobody else.
ReturnPageShared(ws, w, page) ==
    [x \in Walks |-> IF x = w \/ ws[x].status = "open" THEN page ELSE ws[x]]

ReturnPage(ws, w, page) == [ws EXCEPT ![w] = page]

\* EntitiesAPI.aggregate(entity_uuids, cursor=cursor, limit=limit), whose
\* Page goes to walk w.
Aggregate(w, cursor, limit) ==
    LET params == AggregateParams(<<1>>, None, None, cursor, limit)
        gets == CallGets(PagedPath("aggregate", 1), params)
        r == ServerList("aggregate", gets[Len(gets)].params)
    IN  /\ walks[w].status \in { "none", "done" }
        /\ CanRecord
        /\ Recorded(<<ApiCall("EntitiesAPI.aggregate", <<>>)>>, gets)
        /\ walks' = ReturnPage(walks, w, FreshWalk("aggregate", AskedPage(cursor), gets, r))
        /\ raised' = ""
        /\ UNCHANGED <<listing, ver, clientVars, edbVars>>

\* EntitiesAPI.forecast_links(entity_uuid, cursor=cursor, limit=limit), whose
\* Page goes to walk w.
ForecastLinks(w, cursor, limit) ==
    LET params == ForecastLinksParams(None, None, None, None, None, cursor, limit)
        gets == CallGets(PagedPath("forecast_links", 1), params)
        r == ServerList("forecast_links", gets[Len(gets)].params)
    IN  /\ walks[w].status \in { "none", "done" }
        /\ CanRecord
        /\ Recorded(<<ApiCall("EntitiesAPI.forecast_links", <<1>>)>>, gets)
        /\ walks' = ReturnPage(walks, w, FreshWalk("forecast_links", AskedPage(cursor), gets, r))
        /\ raised' = ""
        /\ UNCHANGED <<listing, ver, clientVars, edbVars>>

\* The consumer of walk w reads the items of its current page.
Consume(w) ==
    /\ walks[w].status = "open"
    /\ ~walks[w].consumed
    /\ walks' = [walks EXCEPT
                    ![w].consumed = TRUE,
                    ![w].yielded = @ \o walks[w].resp.items]
    /\ UNCHANGED <<raised, listing, ver, clientVars, logVars, edbVars>>

\* Page.next_page(): None when the response carries no cursor, else the Page
\* of a GET with that cursor.
NextPage(walk) ==
    IF walk.resp.cursor = None
      THEN [walk EXCEPT !.status = "done"]
      ELSE LET req == GetRequest(PagedPath(walk.api, 1),
                                 Put(EmptyDict, "cursor", walk.resp.cursor))
           IN  [walk EXCEPT !.resp = ServerList(walk.api, req.params),
                            !.consumed = FALSE,
                            !.gets = Append(@, req),
                            !.npages = @ + 1]

\* The consumer of walk w, having read the current page, asks for the next.
Advance(w) ==
    /\ walks[w].status = "open"
    /\ walks[w].consumed
    /\ CanRecord
    /\ walks' = [walks EXCEPT ![w] = NextPage(walks[w])]
    /\ Recorded(<<>>, SubSeq(walks'[w].gets, Len(walks[w].gets) + 1, Len(walks'[w].gets)))
    /\ UNCHANGED <<raised, listing, ver, clientVars, edbVars>>

\* The lists the server may hold: 1..MaxPages pages, at most one of them empty.
Listings == { [n |-> n, empty |-> e] : n \in 1..MaxPages, e \in 0..MaxPages }

\* The cursors a caller passes: none, an empty one, or one the server issued.
CursorArgs == { None, Str("") } \cup { CursorOf(k) : k \in 2..listing.n }

LimitArgs == { None, PyInt(0), PyInt(5) }

PageInit ==
    /\ ClientReady
    /\ EdbIdle
    /\ listing \in { l \in Listings : l.empty <= l.n }
    /\ walks = [w \in Walks |-> NoWalk]
    /\ ver = NoVersion

PageAggregate ==
    \E w \in Walks, cursor \in CursorArgs, limit \in LimitArgs : Aggregate(w, cursor, limit)

PageForecastLinks ==
    \E w \in Walks, cursor \in CursorArgs, limit \in LimitArgs : ForecastLinks(w, cursor, limit)

PageConsume == \E w \in Walks : Consume(w)

PageAdvance == \E w \in Walks : Advance(w)

PageNext == PageAggregate \/ PageForecastLinks \/ PageConsume \/ PageAdvance

PageSpec == PageInit /\ [][PageNext]_vars

\* Consumers that walk a list to its end (chain_pages): they keep reading and
\* advancing, and call with the default limit.
WalkAggregate == \E w \in Walks, cursor \in CursorArgs : Aggregate(w, cursor, None)

WalkForecastLinks == \E w \in Walks, cursor \in CursorArgs : ForecastLinks(w, cursor, None)

WalkNext == WalkAggregate \/ WalkForecastLinks \/ PageConsume \/ PageAdvance

PageFairSpec ==
    /\ PageInit
    /\ [][WalkNext]_vars
    /\ \A w \in Walks : WF_vars(Consume(w)) /\ WF_vars(Advance(w))

----------------------------------------------------------------------------
\* cybsi/api/observable/entities_api.py: forecast_attribute_values.

\* AttributeNames: the names of the members of the enumeration.
AttributeNames ==
    { "Class", "RegistrationCountry", "DisplayNames", "IsIoC", "IsTrusted",
      "Names", "NodeRoles", "Sectors", "Size", "IsDGA", "MalwareClasses",
      "MalwareFamilies", "RelatedMalwareFamilies", "IsDelegated", "Statuses",
      "ASN", "RegionalInternetRegistry", "ThreatCategory",
      "RelatedThreatCategory", "MalwareNames", "Campaigns", "ThreatActors",
      "AffectedCountries", "ExploitedVulnerabilities", "TargetedSectors",
      "PotentialDamage", "Platforms", "Tactics", "Techniques" }

\* The dict _attr_value_kebab_converters, by the name of the member that is
\* its key.
_attr_value_kebab_converters ==
    [Size |-> "size",
     Class |-> "class",
     Sectors |-> "sectors",
     DisplayNames |-> "display-names",
     Names |-> "names",
     NodeRoles |-> "node-roles",
     MalwareFamilyAliases |-> "malware-family-aliases",
     IsIoC |-> "is-ioc",
     IsTrusted |-> "is-trusted",
     IsMalicious |-> "is-malicious",
     IsDGA |-> "is-dga"]

\* _convert_attribute_name_kebab(attribute_name): the dict lookup, which
\* raises KeyError for a key the dict lacks.
_convert_attribute_name_kebab(attribute_name) ==
    IF attribute_name \in DOMAIN _attr_value_kebab_converters
      THEN [raised |-> "", value |-> _attr_value_kebab_converters[attribute_name]]
      ELSE [raised |-> "KeyError", value |-> ""]

\* rfc3339_timestamp(datetime): the text of a point of time.
rfc3339_timestamp(d) == [t |-> "str", v |-> "rfc3339", of |-> d.v]

ForecastAtArgs == { None, [t |-> "datetime", v |-> 1] }

EntityUuids == { 1, 2 }

\* EntitiesAPI.forecast_attribute_values(entity_uuid, attr_name, forecast_at)
ForecastAttributeValues(entity_uuid, attr_name, forecast_at) ==
    LET params == IF forecast_at # None
                    THEN Put(EmptyDict, "forecastAt", rfc3339_timestamp(forecast_at))
                    ELSE EmptyDict
        kebab == _convert_attribute_name_kebab(attr_name)
        path == <<EntitiesPath, entity_uuid, "attributes", kebab.value>>
        op == ApiCall("EntitiesAPI.forecast_attribute_values", <<entity_uuid, attr_name>>)
    IN  /\ CanRecord
        /\ call' = [op |-> "forecast_attribute_values", entity_uuid |-> entity_uuid,
                    attr_name |-> attr_name, forecast_at |-> forecast_at]
        /\ IF kebab.raised # ""
             THEN raised' = kebab.raised /\ sent' = NoRequest /\ Recorded(<<op>>, <<>>)
             ELSE /\ raised' = ""
                  /\ sent' = GetRequest(path, params)
                  /\ Recorded(<<op>>, <<GetRequest(path, params)>>)
        /\ UNCHANGED <<dbs, held, stale, wins, registered, clientVars, pageVars>>

AttrInit == ClientReady /\ EdbIdle /\ PagesIdle

AttrNext ==
    \E u \in EntityUuids, a \in AttributeNames, at \in ForecastAtArgs :
        ForecastAttributeValues(u, a, at)

AttrSpec == AttrInit /\ [][AttrNext]_vars

----------------------------------------------------------------------------
\* cybsi/api/observable/entities_api.py: the calls that return one view.

EntityKeyTypes ==
    [String |-> "String", MD5 |-> "MD5Hash", SHA1 |-> "SHA1Hash",
     SHA256 |-> "SHA256Hash", IANAID |-> "IANAID", NICHandle |-> "NICHandle"]

EntityAggregateSections ==
    [n \in { "AssociatedAttributes", "NaturalAttributes", "Threat", "GeoIP", "Labels" } |-> n]

_path_canonical_key == "/observable/entity-canonical-key"

\* [section.value for section in sections]
SectionValues(sections) ==
    [i \in 1..Len(sections) |-> Str(EntityAggregateSections[sections[i]])]

\* The query parameters EntitiesAPI.view builds.
ViewParamsTruthy(sections, forecast_at, with_valuable_facts) ==
    LET p0 == EmptyDict
        p1 == IF Truthy(sections) THEN Put(p0, "section", List(SectionValues(sections.v))) ELSE p0
        p2 == IF Truthy(forecast_at)
                THEN Put(p1, "forecastAt", rfc3339_timestamp(forecast_at)) ELSE p1
        p3 == IF Truthy(with_valuable_facts)
                THEN Put(p2, "valuableFacts", with_valuable_facts) ELSE p2
    IN  p3

ViewParams(sections, forecast_at, with_valuable_facts) ==
    LET p0 == EmptyDict
        p1 == IF sections # None THEN Put(p0, "section", List(SectionValues(sections.v))) ELSE p0
        p2 == IF forecast_at # None
                THEN Put(p1, "forecastAt", rfc3339_timestamp(forecast_at)) ELSE p1
        p3 == IF with_valuable_facts # None
                THEN Put(p2, "valuableFacts", with_valuable_facts) ELSE p2
    IN  p3

\* EntityForm.json(): the body of an entity registration.
EntityJson(entity) == [t |-> "EntityForm", v |-> entity]

\* EntitiesAPI.register(entity)
EntitiesRegister(entity) ==
    LET req == [method |-> "PUT", path |-> <<EntitiesPath>>, json |-> EntityJson(entity)]
    IN  /\ CanRecord
        /\ call' = [op |-> "entities.register", entity |-> entity]
        /\ sent' = req
        /\ Recorded(<<ApiCall("EntitiesAPI.register", <<>>)>>, <<req>>)
        /\ raised' = ""
        /\ UNCHANGED <<dbs, held, stale, wins, registered, clientVars, pageVars>>

\* EntitiesAPI.view(entity_uuid, sections, forecast_at, with_valuable_facts)
EntitiesView(entity_uuid, sections, forecast_at, with_valuable_facts) ==
    LET params == ViewParams(sections, forecast_at, with_valuable_facts)
        req == GetRequest(<<EntitiesPath, entity_uuid>>, params)
    IN  /\ CanRecord
        /\ call' = [op |-> "entities.view", entity_uuid |-> entity_uuid,
                    sections |-> sections, forecast_at |-> forecast_at,
                    with_valuable_facts |-> with_valuable_facts]
        /\ sent' = req
        /\ Recorded(<<ApiCall("EntitiesAPI.view", <<entity_uuid>>)>>, <<req>>)
        /\ raised' = ""
        /\ UNCHANGED <<dbs, held, stale, wins, registered, clientVars, pageVars>>

\* EntitiesAPI.canonize_key(entity_type, key_type, value)
CanonizeKey(entity_type, key_type, value) ==
    LET params == Put(Put(Put(EmptyDict, "entityType", Str(EntityTypes[entity_type])),
                          "keyType", Str(EntityKeyTypes[key_type])),
                      "key", value)
        req == GetRequest(<<_path_canonical_key>>, params)
    IN  /\ CanRecord
        /\ call' = [op |-> "canonize_key", entity_type |-> entity_type,
                    key_type |-> key_type, value |-> value]
        /\ sent' = req
        /\ Recorded(<<ApiCall("EntitiesAPI.canonize_key", <<>>)>>, <<req>>)
        /\ raised' = ""
        /\ UNCHANGED <<dbs, held, stale, wins, registered, clientVars, pageVars>>

\* EntitiesAPI.forecast_links_statistic(entity_uuid, forecast_at)
ForecastLinksStatistic(entity_uuid, forecast_at) ==
    LET params == IF forecast_at # None
                    THEN Put(EmptyDict, "forecastAt", rfc3339_timestamp(forecast_at))
                    ELSE EmptyDict
        req == GetRequest(<<EntitiesPath, entity_uuid, "link-type-statistic">>, params)
    IN  /\ CanRecord
        /\ call' = [op |-> "forecast_links_statistic", entity_uuid |-> entity_uuid,
                    forecast_at |-> forecast_at]
        /\ sent' = req
        /\ Recorded(<<ApiCall("EntitiesAPI.forecast_links_statistic", <<entity_uuid>>)>>, <<req>>)
        /\ raised' = ""
        /\ UNCHANGED <<dbs, held, stale, wins, registered, clientVars, pageVars>>

\* The sections a caller of view passes: none, an empty list, or some.
SectionsArgs ==
    { None, List(<<>>), List(<<"Threat">>), List(<<"AssociatedAttributes", "GeoIP">>),
      List(<<"Labels", "NaturalAttributes", "Labels">>) }

ValuableFactsArgs == { None, PyBool(TRUE), PyBool(FALSE) }

EntInit == ClientReady /\ EdbIdle /\ PagesIdle

EntView ==
    \E u \in EntityUuids, ss \in SectionsArgs, at \in ForecastAtArgs,
       wvf \in ValuableFactsArgs :
        EntitiesView(u, ss, at, wvf)

EntRegister == \E e \in EntityUuids : EntitiesRegister(e)

EntCanonize ==
    \E et \in DOMAIN EntityTypes, kt \in DOMAIN EntityKeyTypes :
        CanonizeKey(et, kt, Str("x"))

EntStatistic ==
    \E u \in EntityUuids, at \in ForecastAtArgs : ForecastLinksStatistic(u, at)

EntNext == EntView \/ EntRegister \/ EntCanonize \/ EntStatistic

EntSpec == EntInit /\ [][EntNext]_vars

----------------------------------------------------------------------------
\* One caller calling every API method, its calls and their requests recorded.

CallInit == ClientRecorded /\ OneRegistered /\ PagesIdle

CallVersion == ClientVersion

CallEdbView == View("a", 1)

CallEdbRegister == Register("a", 2, <<"IPAddress">>, None, None, None)

CallEdbEdit == Edit("a", 1, dbs[1].tag, None, Str("v"), None, None)

CallEntRegister == EntitiesRegister(1)

CallEntView == EntitiesView(1, None, None, None)

CallAggregate == \E w \in Walks : Aggregate(w, None, None)

CallCanonize == CanonizeKey("DomainName", "String", Str("x"))

CallForecastAttr ==
    \E a \in { "IsIoC", "RegistrationCountry" } : ForecastAttributeValues(1, a, None)

CallForecastLinks == \E w \in Walks : ForecastLinks(w, None, None)

CallStatistic == ForecastLinksStatistic(1, None)

CallNext ==
    \/ CallVersion
    \/ CallEdbView
    \/ CallEdbRegister
    \/ CallEdbEdit
    \/ CallEntRegister
    \/ CallEntView
    \/ CallAggregate
    \/ CallCanonize
    \/ CallForecastAttr
    \/ CallForecastLinks
    \/ CallStatistic

CallSpec == CallInit /\ [][CallNext]_vars

----------------------------------------------------------------------------
\* cybsi/api/client.py: Version. A text is the sequence of its characters.

Digits == <<"0", "1", "2", "3", "4", "5", "6", "7", "8", "9">>

\* The value of a decimal digit character.
DigitValue(ch) == (CHOOSE i \in 1..10 : Digits[i] = ch) - 1

\* int(text) for a text of decimal digits.
RECURSIVE PyIntOf(_)
PyIntOf(text) ==
    IF text = <<>> THEN 0
    ELSE 10 * PyIntOf(SubSeq(text, 1, Len(text) - 1)) + DigitValue(text[Len(text)])

\* sep in text
Contains(text, sep) == \E i \in 1..Len(text) : text[i] = sep

\* The index of the first sep in text.
FirstIndex(text, sep) ==
    CHOOSE i \in 1..Len(text) : text[i] = sep /\ \A j \in 1..(i - 1) : text[j] # sep

\* text.split(sep, maxsplit)
RECURSIVE PySplit(_, _, _)
PySplit(text, sep, maxsplit) ==
    IF maxsplit = 0 \/ ~Contains(text, sep) THEN <<text>>
    ELSE LET i == FirstIndex(text, sep) IN
         <<SubSeq(text, 1, i - 1)>>
             \o PySplit(SubSeq(text, i + 1, Len(text)), sep, maxsplit - 1)

\* Version.__init__(version) and the properties of the Version.
VersionDashFirst(version) ==
    LET a == IF Contains(version, "-") THEN PySplit(version, "-", 1) ELSE <<version, <<>>>>
        b == IF Contains(a[2], "+") THEN PySplit(a[2], "+", 1)
             ELSE IF Contains(a[1], "+") THEN <<<<>>, PySplit(a[1], "+", 1)[2]>>
             ELSE <<a[2], <<>>>>
        core == IF Contains(a[1], "+") THEN PySplit(a[1], "+", 1)[1] ELSE a[1]
        nums == PySplit(core, ".", 2)
    IN  [major |-> PyIntOf(nums[1]),
         minor |-> PyIntOf(nums[2]),
         patch |-> PyIntOf(nums[3]),
         prerelease |-> IF b[1] # <<>> THEN Str(b[1]) ELSE None,
         build |-> IF b[2] # <<>> THEN Str(b[2]) ELSE None]

Version(version) ==
    LET a == IF Contains(version, "+") THEN PySplit(version, "+", 1) ELSE <<version, <<>>>>
        p1 == a[1]
        _build == a[2]
        b == IF Contains(p1, "-") THEN PySplit(p1, "-", 1) ELSE <<p1, <<>>>>
        core == b[1]
        _prerelease == b[2]
        nums == [i \in 1..3 |-> PyIntOf(PySplit(core, ".", 2)[i])]
    IN  [major |-> nums[1],
         minor |-> nums[2],
         patch |-> nums[3],
         prerelease |-> IF _prerelease # <<>> THEN Str(_prerelease) ELSE None,
         build |-> IF _build # <<>> THEN Str(_build) ELSE None]

\* The decimal text of the numbers the server's versions are made of.
DecimalText ==
    [n \in { 0, 7, 12, 305 } |->
        CASE n = 0 -> <<"0">>
          [] n = 7 -> <<"7">>
          [] n = 12 -> <<"1", "2">>
          [] n = 305 -> <<"3", "0", "5">>]

\* All texts over an alphabet of at most n characters.
RECURSIVE TextsUpTo(_, _)
TextsUpTo(alphabet, n) ==
    IF n = 0 THEN { <<>> }
    ELSE LET shorter == TextsUpTo(alphabet, n - 1) IN
         shorter \cup { Append(x, ch) : x \in shorter, ch \in alphabet }

\* The parts of a version MAJOR.MINOR.PATCH[-PRERELEASE][+BUILD]; a part that
\* is absent is None.
VersionParts ==
    [major : { 0, 12 }, minor : { 7, 305 }, patch : { 0, 12 },
     prerelease : { None } \cup { Str(x) : x \in TextsUpTo({ "a", "-", "." }, MaxPartLen) },
     build : { None } \cup { Str(x) : x \in TextsUpTo({ "b", "-", ".", "+" }, MaxPartLen) }]

\* The text of a version made of the given parts.
VersionText(parts) ==
    DecimalText[parts.major] \o <<".">> \o DecimalText[parts.minor] \o <<".">>
        \o DecimalText[parts.patch]
        \o (IF parts.prerelease # None THEN <<"-">> \o parts.prerelease.v ELSE <<>>)
        \o (IF parts.build # None THEN <<"+">> \o parts.build.v ELSE <<>>)

\* client.version().api_version: GET /version, then Version(apiVersion) of
\* the text the server reports.
ApiVersion ==
    /\ client = "ready"
    /\ ~connectors[1].closed
    /\ CanRecord
    /\ call' = [op |-> "version"]
    /\ sent' = GetRequest(<<"/version">>, EmptyDict)
    /\ Recorded(<<ApiCall("CybsiClient.version", <<>>)>>, <<sent'>>)
    /\ raised' = ""
    /\ ver' = [ver EXCEPT !.parsed = Version(ver.text)]
    /\ UNCHANGED <<dbs, held, stale, wins, registered, clientVars, listing, walks>>

\* The server reports a version of any of the parts.
VersionInit ==
    /\ ClientRecorded
    /\ EdbIdle
    /\ listing = [n |-> 1, empty |-> 0]
    /\ walks = [w \in Walks |-> NoWalk]
    /\ \E parts \in VersionParts :
          ver = [text |-> VersionText(parts), parts |-> parts, parsed |-> None]

VersionNext == ApiVersion

VersionSpec == VersionInit /\ [][VersionNext]_vars

----------------------------------------------------------------------------
\* C1: constructing CybsiClient with a Config whose auth is None and whose
\* api_key is empty or unset raises CybsiError, creating no connector and
\* issuing no request; with any other Config construction succeeds and
\* creates exactly one connector.
C1_NoAuthRaises ==
    client # "unconstructed" =>
        IF config.auth = None /\ config.api_key \in { None, Str("") }
          THEN client = "raised" /\ raised = "CybsiError"
               /\ connectors = <<>> /\ requests = <<>>
          ELSE client = "ready" /\ Len(connectors) = 1

C1_Witness_Raised ==
    client = "raised" /\ config.auth = None /\ config.api_key = Str("")

\* C2: when Config.api_key is non-empty the connector authenticates with an
\* APIKeyAuth built from that api_key, whatever Config.auth is; when api_key
\* is empty and auth is given, the connector uses exactly that auth object.
C2_ApiKeyWins ==
    client = "ready" =>
        /\ Len(connectors) = 1
        /\ (config.api_key.t = "str" /\ config.api_key.v # "")
              => connectors[1].auth = APIKeyAuth("", config.api_key)
        /\ (config.api_key \in { None, Str("") } /\ config.auth # None)
              => connectors[1].auth = config.auth

C2_Witness_KeyAndAuth ==
    /\ client = "ready"
    /\ config.api_key = Str("k1")
    /\ config.auth = APIKeyAuth("u1", Str("k9"))
    /\ connectors[1].auth = APIKeyAuth("", Str("k1"))

\* The key of the PATCH body each Nullable argument of edit is sent under.
NullableEditKeys ==
    [web_page_url |-> "webPageURL",
     task_execution_timeout |-> "taskExecutionTimeout",
     task_execution_attempts_count |-> "taskExecutionAttemptsCount"]

\* C3: in ExternalDBsAPI.edit, for each of web_page_url,
\* task_execution_timeout and task_execution_attempts_count independently of
\* every other argument: None leaves the key out of the PATCH body, the Null
\* sentinel puts the key in the body with a JSON null, and a value puts the
\* key in the body with that value.
C3_TriState ==
    call.op = "edit" =>
        /\ sent.method = "PATCH"
        /\ \A a \in DOMAIN NullableEditKeys :
              LET k == NullableEditKeys[a] IN
              CASE call[a] = None -> k \notin DOMAIN sent.json
                [] call[a] = Null -> k \in DOMAIN sent.json /\ sent.json[k] = None
                [] OTHER -> k \in DOMAIN sent.json /\ sent.json[k] = call[a]

C3_Witness_MixedFields ==
    /\ call.op = "edit"
    /\ call.web_page_url = Null
    /\ call.task_execution_timeout = None
    /\ call.task_execution_attempts_count = PyInt(3)
    /\ DOMAIN sent.json = { "webPageURL", "taskExecutionAttemptsCount" }
    /\ sent.json["webPageURL"] = None
    /\ raised = ""
    /\ dbs[1].webPageURL = None
    /\ dbs[1].taskExecutionAttemptsCount = PyInt(3)

\* What C7 says of one step that is a call of edit.
C7_EditStep ==
    call'.op = "edit" =>
        LET c == call'.caller
            db == call'.db_uuid
        IN  /\ sent'.method = "PATCH"
            /\ sent'.tag = call'.tag
            /\ dbs[db].tag # call'.tag =>
                   raised' = "ResourceModifiedError" /\ dbs' = dbs
            /\ raised' = "" => wins[<<db, call'.tag>>] = 0 /\ ~stale[c]

\* C7: edit always sends the caller-supplied tag with its PATCH; if the
\* external database changed after the tag was obtained with view, the edit
\* raises ResourceModifiedError and applies none of its changes; of the edits
\* made with the same tag at most one succeeds, and a caller whose edit was
\* refused succeeds only after it has viewed the database again.
C7_TagGuardsEdit == [][C7_EditStep]_vars

C7_Witness_LoserRefused ==
    /\ call.op = "edit"
    /\ call.caller = "b"
    /\ call.tag = 0
    /\ raised = "ResourceModifiedError"
    /\ stale["b"]
    /\ ~stale["a"]
    /\ held["a"].db = 1
    /\ held["a"].tag = 0
    /\ wins[<<1, 0>>] = 1
    /\ dbs[1].tag = 1

\* What C8 says of one step that is a call of register.
C8_RegisterStep ==
    call'.op = "register" =>
        /\ registered[call'.data_source_uuid] > 0 =>
               raised' = "ConflictError"
        /\ raised' # "" => dbs' = dbs /\ registered' = registered

\* At most one registration succeeded, and at most one external database is
\* stored, per data source uuid.
C8_AtMostOne ==
    \A d \in DataSourceArgs :
        /\ registered[d] <= 1
        /\ Cardinality({ i \in 1..Len(dbs) : dbs[i].dataSourceUUID = UuidStr(d) }) <= 1

\* C8: register raises ConflictError when an external database with the same
\* data source is already registered, a register that raises registers
\* nothing, and so after any sequence of register calls there is at most one
\* registered external database per data source uuid.
C8_OnePerDataSource == [][C8_RegisterStep /\ C8_AtMostOne']_vars

C8_Witness_Conflict ==
    /\ call.op = "register"
    /\ raised = "ConflictError"
    /\ Len(dbs) = 2
    /\ registered[call.data_source_uuid] = 1

\* The page a walk starts from: the one its caller asked for.
StartPage(walk) == walk.start

\* The items of pages a..b of a list, in server order.
RECURSIVE PagesFrom(_, _, _)
PagesFrom(api, a, b) ==
    IF a > b THEN <<>> ELSE ServerPage(api, a) \o PagesFrom(api, a + 1, b)

\* What C4 says of one step of a walk that is open.
C4_Step ==
    \A w \in Walks :
        walks[w].status = "open" =>
            IF walks[w].resp.cursor = None
              THEN walks'[w].gets = walks[w].gets
              ELSE \/ walks'[w].gets = walks[w].gets /\ walks'[w].status = "open"
                   \/ /\ walks'[w].gets =
                            Append(walks[w].gets, walks'[w].gets[Len(walks'[w].gets)])
                      /\ walks'[w].gets[Len(walks'[w].gets)].method = "GET"
                      /\ walks'[w].gets[Len(walks'[w].gets)].params["cursor"]
                            = walks[w].resp.cursor

\* What C4 says of a walk that has ended.
C4_Done ==
    \A w \in Walks :
        walks[w].status = "done" =>
            /\ walks[w].resp.cursor = None
            /\ walks[w].yielded = PagesFrom(walks[w].api, StartPage(walks[w]), listing.n)
            /\ Len(walks[w].gets) = listing.n - StartPage(walks[w]) + 1

\* C4: a walk of the pages of aggregate or forecast_links issues each next
\* GET with exactly the cursor of the previous response, issues no GET after
\* a response without a cursor, and, read to its end, ends having yielded
\* every item of every page once, in server order.
C4_WalkFollowsCursors ==
    /\ [][C4_Step]_vars
    /\ [](C4_Done)
    /\ \A w \in Walks : (walks[w].status = "open") ~> (walks[w].status = "done")

C4_Witness_WalkedAll ==
    /\ listing = [n |-> 3, empty |-> 2]
    /\ walks[1].status = "done"
    /\ walks[1].start = 1
    /\ Len(walks[1].gets) = 3
    /\ Len(walks[1].yielded) = 2 * ItemsPerPage

\* What C5 says of one step.
C5_Step ==
    \A w \in Walks :
        /\ (walks[w].status # "open" /\ walks'[w].status = "open")
               => Len(walks'[w].gets) = 1
        /\ (walks[w].status = "open" /\ walks'[w].gets # walks[w].gets)
               => /\ walks[w].consumed
                  /\ Len(walks'[w].gets) = Len(walks[w].gets) + 1
                  /\ walks'[w].npages = walks[w].npages + 1

\* A walk has issued as many GETs as it has obtained pages.
C5_GetsArePages == \A w \in Walks : Len(walks[w].gets) = walks[w].npages

\* C5: pagination is lazy: a call of aggregate or forecast_links issues
\* exactly one GET, the GET of the next page is issued only when the
\* consumer, having read a page, asks to advance, and a consumer that stops
\* after k pages has caused exactly k GETs.
C5_Lazy == [][C5_Step /\ C5_GetsArePages']_vars

C5_Witness_StoppedEarly ==
    /\ listing.n = 3
    /\ walks[1].status = "open"
    /\ walks[1].consumed
    /\ walks[1].npages = 2
    /\ Len(walks[1].gets) = 2
    /\ walks[2].status = "none"

\* The page a walk is at and the items it has yielded follow from its own
\* call and its own progress alone.
C6_OwnProgress ==
    \A w \in Walks :
        walks[w].status # "none" =>
            LET first == StartPage(walks[w])
                at == first + walks[w].npages - 1
            IN  /\ walks[w].resp.items = ServerPage(walks[w].api, at)
                /\ walks[w].resp.cursor = (IF at < listing.n THEN CursorOf(at + 1) ELSE None)
                /\ walks[w].yielded =
                      PagesFrom(walks[w].api, first,
                                IF walks[w].consumed THEN at ELSE at - 1)

\* A step of one walk leaves every other walk as it was.
C6_Frame ==
    \A w \in Walks, x \in Walks :
        (w # x /\ walks'[w] # walks[w]) => walks'[x] = walks[x]

\* C6: pagination is restartable per call: every call of aggregate or
\* forecast_links returns a fresh Page whose walk starts from the first page
\* (or from the caller's cursor), and the progress of one walk never changes
\* the cursor used by, or the items yielded by, another walk.
C6_Restartable == [][C6_Frame /\ C6_OwnProgress']_vars

C6_Witness_SecondWalkFresh ==
    /\ listing.n = 3
    /\ walks[1].api = "aggregate"
    /\ walks[1].npages = 3
    /\ walks[2].api = "aggregate"
    /\ walks[2].status = "open"
    /\ walks[2].npages = 1
    /\ walks[2].start = 1
    /\ walks[2].resp.cursor = CursorOf(2)

\* The kebab-case form of the name of every member of AttributeNames.
KebabCase ==
    [Class |-> "class",
     RegistrationCountry |-> "registration-country",
     DisplayNames |-> "display-names",
     IsIoC |-> "is-ioc",
     IsTrusted |-> "is-trusted",
     Names |-> "names",
     NodeRoles |-> "node-roles",
     Sectors |-> "sectors",
     Size |-> "size",
     IsDGA |-> "is-dga",
     MalwareClasses |-> "malware-classes",
     MalwareFamilies |-> "malware-families",
     RelatedMalwareFamilies |-> "related-malware-families",
     IsDelegated |-> "is-delegated",
     Statuses |-> "statuses",
     ASN |-> "asn",
     RegionalInternetRegistry |-> "regional-internet-registry",
     ThreatCategory |-> "threat-category",
     RelatedThreatCategory |-> "related-threat-category",
     MalwareNames |-> "malware-names",
     Campaigns |-> "campaigns",
     ThreatActors |-> "threat-actors",
     AffectedCountries |-> "affected-countries",
     ExploitedVulnerabilities |-> "exploited-vulnerabilities",
     TargetedSectors |-> "targeted-sectors",
     PotentialDamage |-> "potential-damage",
     Platforms |-> "platforms",
     Tactics |-> "tactics",
     Techniques |-> "techniques"]

\* C9: for every member of AttributeNames, forecast_attribute_values issues
\* its GET, without raising a client-side error, on the path
\* /observable/entities/{entity_uuid}/attributes/{kebab}, where kebab is the
\* kebab-case form of the member's name.
C9_KebabPath ==
    call.op = "forecast_attribute_values" =>
        /\ raised = ""
        /\ sent.method = "GET"
        /\ sent.path = <<EntitiesPath, call.entity_uuid, "attributes",
                         KebabCase[call.attr_name]>>

\* C10: for every version MAJOR.MINOR.PATCH[-PRERELEASE][+BUILD], Version
\* exposes major, minor and patch as those integers, prerelease as the text
\* between the first '-' before the first '+' and that '+', and build as the
\* text after the first '+'; prerelease and build are None exactly when the
\* part is absent or empty, so a '-' inside BUILD never makes a prerelease.
C10_VersionParts ==
    ver.parsed # None =>
        /\ ver.parsed.major = ver.parts.major
        /\ ver.parsed.minor = ver.parts.minor
        /\ ver.parsed.patch = ver.parts.patch
        /\ ver.parsed.prerelease =
              (IF ver.parts.prerelease \in { None, Str(<<>>) }
                 THEN None ELSE ver.parts.prerelease)
        /\ ver.parsed.build =
              (IF ver.parts.build \in { None, Str(<<>>) } THEN None ELSE ver.parts.build)

C10_Witness_DashInBuild ==
    /\ ver.parsed # None
    /\ ver.text = <<"1", "2", ".", "3", "0", "5", ".", "0", "+", "b", "-">>
    /\ ver.parsed.major = 12
    /\ ver.parsed.minor = 305
    /\ ver.parsed.prerelease = None
    /\ ver.parsed.build = Str(<<"b", "-">>)

\* The request the 'Calls' note of an API method documents for a call.
DocumentedRequest(c) ==
    CASE c.op = "CybsiClient.version" -> Request("GET", <<"/version">>)
      [] c.op = "ExternalDBsAPI.view" -> Request("GET", <<ExternalDBsPath, c.args[1]>>)
      [] c.op = "ExternalDBsAPI.register" -> Request("POST", <<ExternalDBsPath>>)
      [] c.op = "ExternalDBsAPI.edit" -> Request("PATCH", <<ExternalDBsPath, c.args[1]>>)
      [] c.op = "EntitiesAPI.register" -> Request("PUT", <<EntitiesPath>>)
      [] c.op = "EntitiesAPI.view" -> Request("GET", <<EntitiesPath, c.args[1]>>)
      [] c.op = "EntitiesAPI.aggregate" -> Request("GET", <<EntitiesPath>>)
      [] c.op = "EntitiesAPI.canonize_key" -> Request("GET", <<_path_canonical_key>>)
      [] c.op = "EntitiesAPI.forecast_attribute_values" ->
             Request("GET", <<EntitiesPath, c.args[1], "attributes", KebabCase[c.args[2]]>>)
      [] c.op = "EntitiesAPI.forecast_links" ->
             Request("GET", <<EntitiesPath, c.args[1], "links">>)
      [] c.op = "EntitiesAPI.forecast_links_statistic" ->
             Request("GET", <<EntitiesPath, c.args[1], "link-type-statistic">>)

\* C11: every API method call issues exactly one HTTP request, with the
\* method and path its 'Calls' note documents, and nothing is cached: after n
\* calls the connector has issued n requests, the i-th being the documented
\* request of the i-th call.
C11_OneRequestPerCall ==
    /\ Len(requests) = Len(calls)
    /\ \A i \in 1..Len(calls) : requests[i] = DocumentedRequest(calls[i])

\* C12: CybsiClient.close closes the client's connector: a step that is a
\* call of close leaves the client's one connector closed, creates no
\* connector and issues no HTTP request.
C12_CloseStep ==
    call'.op = "close" =>
        /\ connectors'[1].closed
        /\ Len(connectors') = Len(connectors)
        /\ requests' = requests
        /\ sent' = NoRequest

C12_CloseReleases == [][C12_CloseStep]_vars

\* close() returned on a client that had issued requests before.
C12_Witness_ClosedAfterUse ==
    /\ call.op = "close"
    /\ connectors[1].closed
    /\ requests # <<>>

\* C14: a handle read from a property of the client is of the property's
\* class and bound to the one connector __init__ created; the read creates
\* no connector, issues no HTTP request and leaves the client as it was.
C14_PropertyStep ==
    call'.op = "property" =>
        /\ handle' = BaseAPI(Properties[call'.name], 1)
        /\ Len(connectors') = 1
        /\ connectors' = connectors
        /\ requests' = requests
        /\ sent' = NoRequest
        /\ client' = client
        /\ config' = config

C14_HandlesShareConnector == [][C14_PropertyStep]_vars

\* A handle was read after the client had issued a request and was closed.
C14_Witness_ReadAfterUse ==
    /\ call.op = "property"
    /\ handle.api = "APIKeysAPI"
    /\ requests # <<>>
    /\ connectors[1].closed

\* C13: the entity types list of an external database is non-empty whenever
\* it is sent: the entityTypes value of the body of a POST or a PATCH to
\* /enrichment/external-dbs is never an empty list.
C13_EntityTypesNonEmpty ==
    (sent.method \in { "POST", "PATCH" } /\ "entityTypes" \in DOMAIN sent.json)
        => sent.json["entityTypes"].v # <<>>

\* C16: entity types survive the wire round trip: a view of a database
\* whose stored entityTypes are the values of a list of members, as
\* ExternalDBForm and edit serialize it, has that list as its entity_types;
\* and no two members share a value.
C16_RoundTrip ==
    /\ \A m, n \in DOMAIN EntityTypes : EntityTypes[m] = EntityTypes[n] => m = n
    /\ \A c \in Callers : \A L \in TypeLists :
          (/\ held[c].db \in 1..Len(dbs)
           /\ held[c].tag = dbs[held[c].db].tag
           /\ dbs[held[c].db].entityTypes = List(EntityTypeValues(L)))
              => held[c].entity_types = L

\* A view of a database whose entity types an edit replaced by URL, File.
C16_Witness_ViewedAfterEdit ==
    /\ held["a"].db = 1
    /\ held["a"].tag = 1
    /\ dbs[1].tag = 1
    /\ held["a"].entity_types = <<"URL", "File">>

\* C15: in EntitiesAPI.view a query parameter is sent exactly when its
\* argument is not None: section with the values of sections (an empty list
\* gives an empty section list), forecastAt with the timestamp of forecast_at,
\* valuableFacts with with_valuable_facts itself, so that False is sent as
\* false; with all three None the GET carries no parameters.
C15_ParamsIffNotNone ==
    call.op = "entities.view" =>
        /\ sent.method = "GET"
        /\ DOMAIN sent.params \subseteq { "section", "forecastAt", "valuableFacts" }
        /\ "section" \in DOMAIN sent.params <=> call.sections # None
        /\ call.sections # None =>
               sent.params["section"] = List(SectionValues(call.sections.v))
        /\ "forecastAt" \in DOMAIN sent.params <=> call.forecast_at # None
        /\ call.forecast_at # None =>
               sent.params["forecastAt"] = rfc3339_timestamp(call.forecast_at)
        /\ "valuableFacts" \in DOMAIN sent.params <=> call.with_valuable_facts # None
        /\ call.with_valuable_facts # None =>
               sent.params["valuableFacts"] = call.with_valuable_facts
        /\ (call.sections = None /\ call.forecast_at = None
              /\ call.with_valuable_facts = None) => sent.params = EmptyDict

\* view was called with an empty sections list and with_valuable_facts=False,
\* and both were sent.
C15_Witness_FalseAndEmptySent ==
    /\ call.op = "entities.view"
    /\ call.sections = List(<<>>)
    /\ call.with_valuable_facts = PyBool(FALSE)
    /\ sent.params["section"] = List(<<>>)
    /\ sent.params["valuableFacts"] = PyBool(FALSE)

====
